---- MODULE Spec2Model ----
(***************************************************************************)
(* Verification model of the three Kaltura automation tools:               *)
(*   report-count-duration    (interval chunking, per-chunk pagination)    *)
(*   download-entries         (entry resolution, filename derivation)      *)
(*   unpublish-republish-entry (remove / verify / add / verify cycle)      *)
(* Each tool is an independent program; each has its own specification.    *)
(***************************************************************************)
EXTENDS Integers, Sequences, FiniteSets, TLC

VARIABLES
    \* ---- report-count-duration: get_interval_ranges ----
    start_date,      \* START_DATE, as a day ordinal (1 = 2023-01-01)
    end_date,        \* END_DATE
    interval_type,   \* RESTRICTION_INTERVAL
    current,         \* the generator's local "current"
    chunks,          \* the (start, end) pairs yielded so far
    gpc,             \* generator position: "loop" | "done" | "idle"
    \* ---- unpublish-republish-entry ----
    entry_ids,       \* the input list of entry IDs
    category_id,     \* the single resolved category
    widx,            \* position of the for loop in entry_ids (1-based)
    wpc,             \* "start" | "remove" | "delete" | "verify_removal" | "add" |
                     \* "verify_add" | "done" | "crashed" | "exited" | "idle"
    calls,           \* the remote calls issued so far, in order
    exit_status,     \* "running", or the process exit status 0 / 1
    \* ---- filename cleanup applied repeatedly ----
    ctool,           \* "download" (get_file_name's cleanup) | "report" (clean_filename)
    cresults,        \* <<n, clean(n), clean(clean(n))>> as far as computed
    \* ---- download-entries ----
    entries,         \* main's "entries": each with or without a mediaType attribute
    didx,            \* position of main's for loop in entries (1-based)
    children,        \* the children of the current entry still to be processed
    ditem,           \* the entry or child being processed
    dpc,             \* position in main / process_entry / get_download_url
    attempt,         \* get_entry_details' loop variable
    gets,            \* baseEntry.get calls made for the current item
    slept,           \* the time.sleep durations of the current resolution
    details,         \* entry_details: "unset" | "none" | "video" | "image" | "untyped"
    url,             \* "unset" | "none" | "direct" | "flavor"
    dcalls,          \* other remote / HTTP calls made for the current item
    derived,         \* get_file_name's filename before the collision loop
    filename,        \* get_file_name's result
    folder,          \* the names that exist in DOWNLOAD_FOLDER
    written,         \* the names download_file wrote in this run, in order
    overwrote,       \* download_file opened a name that already existed
    \* ---- report-count-duration: main loop and fetch_entries_for_interval ----
    EXPORT_CSV,      \* the configured flag
    rpc,             \* "next_chunk" | "list" | "output" | "done" | "exit1" | "crashed" | "idle"
    pageIndex,       \* pager.pageIndex
    entry_count,     \* fetch_entries_for_interval's entry_count
    summary,         \* the summary rows appended so far
    lastCall,        \* the most recent client.media.list call and its outcome
    routput,         \* what has been printed / written
    report_exit,     \* "running", or the process exit status 0 / 1
    \* ---- download-entries: courtesy pauses and get_entries ----
    pauses,          \* time.sleep(1) calls made so far by main / process_entry
    list_pageIndex,  \* get_entries: pager.pageIndex
    list_requests,   \* get_entries: the baseEntry.list calls made, in order
    list_results,    \* get_entries: what each of those calls returned
    \* ---- report-count-duration: per-entry enrichment ----
    FLAVOR_SIZE,     \* the answer to "calculate flavor size?" is non-empty
    FLAVOR_SOURCE_NAME,  \* the answer to "name of the source file?" is non-empty
    remaining,       \* entries of the current page not yet processed
    all_entries,     \* the rows appended for this chunk
    enrich_log,      \* per row: what the enrichment calls of its entry did
    total_flavor_size    \* fetch_entries_for_interval's total_flavor_size

genvars == <<start_date, end_date, interval_type, current, chunks, gpc>>

wfvars == <<entry_ids, category_id, widx, wpc, calls, exit_status>>

clvars == <<ctool, cresults>>

dlvars == <<entries, didx, children, ditem, dpc, attempt, gets, slept, details, url,
            dcalls, derived, filename, folder, written, overwrote>>

rpvars == <<EXPORT_CSV, rpc, pageIndex, entry_count, summary, lastCall, routput, report_exit>>

gevars == <<pauses, list_pageIndex, list_requests, list_results>>

envars == <<FLAVOR_SIZE, FLAVOR_SOURCE_NAME, remaining, all_entries, enrich_log,
            total_flavor_size>>

vars == <<genvars, wfvars, clvars, dlvars, rpvars, gevars, envars>>

\* the variables of the other programs, which a program never touches
nonGen == <<wfvars, clvars, dlvars, rpvars, gevars, envars>>
nonWf == <<genvars, clvars, dlvars, rpvars, gevars, envars>>
nonCl == <<genvars, wfvars, dlvars, rpvars, gevars, envars>>
nonDl == <<genvars, wfvars, clvars, rpvars, envars>>
nonRp == <<wfvars, clvars, dlvars, gevars, envars>>

GenIdle ==
    /\ start_date = 0 /\ end_date = 0 /\ interval_type = 0
    /\ current = 0 /\ chunks = << >> /\ gpc = "idle"

WfIdle ==
    /\ entry_ids = << >> /\ category_id = "none" /\ widx = 0
    /\ wpc = "idle" /\ calls = << >> /\ exit_status = "running"

(***************************************************************************)
(* Calendar: datetime.date arithmetic on day ordinals.                     *)
(***************************************************************************)
IsLeap(y) == (y % 4 = 0) /\ ((y % 100 # 0) \/ (y % 400 = 0))

DaysInMonth(y, m) ==
    IF m = 2 THEN (IF IsLeap(y) THEN 29 ELSE 28)
    ELSE IF m \in {4, 6, 9, 11} THEN 30 ELSE 31

DaysInYear(y) == IF IsLeap(y) THEN 366 ELSE 365

RECURSIVE DaysBeforeYear(_)
DaysBeforeYear(y) == IF y <= 2023 THEN 0 ELSE DaysBeforeYear(y - 1) + DaysInYear(y - 1)

RECURSIVE DaysBeforeMonth(_, _)
DaysBeforeMonth(y, m) == IF m <= 1 THEN 0 ELSE DaysBeforeMonth(y, m - 1) + DaysInMonth(y, m - 1)

\* date(y, m, d) as an ordinal
ToOrdinal(y, m, d) == DaysBeforeYear(y) + DaysBeforeMonth(y, m) + d

RECURSIVE YearOf(_, _)
YearOf(n, y) == IF n <= DaysBeforeYear(y) + DaysInYear(y) THEN y ELSE YearOf(n, y + 1)

RECURSIVE MonthOf(_, _, _)
MonthOf(n, y, m) ==
    IF n <= DaysBeforeYear(y) + DaysBeforeMonth(y, m) + DaysInMonth(y, m) THEN m
    ELSE MonthOf(n, y, m + 1)

\* the (year, month, day) fields of the date with ordinal n
FromOrdinal(n) ==
    LET y == YearOf(n, 2023)
        m == MonthOf(n, y, 1)
    IN  [year |-> y, month |-> m, day |-> n - DaysBeforeYear(y) - DaysBeforeMonth(y, m)]

\* date.replace(month=.., day=..)
ReplaceMonthDay(n, m, d) == ToOrdinal(FromOrdinal(n).year, m, d)

\* date.replace(day=..)
ReplaceDay(n, d) == ToOrdinal(FromOrdinal(n).year, FromOrdinal(n).month, d)

Min(a, b) == IF a <= b THEN a ELSE b

(***************************************************************************)
(* get_interval_ranges                                                     *)
(***************************************************************************)
FirstDay == 362      \* 2023-12-28
SpanDays == 66       \* the window of candidate dates, through 2024-03-03
Intervals == {1, 2, 3, 4}

\* the end of the chunk that starts at cur, before clamping
NextDate(cur, itype) ==
    IF itype = 1 THEN ReplaceMonthDay(cur, 12, 31)
    ELSE IF itype = 2 THEN ReplaceDay(ReplaceDay(cur, 28) + 4, 1) - 1
    ELSE IF itype = 3 THEN cur + 6
    ELSE cur

\* min(next_date, end_date)
ChunkEnd(next_date, e) == Min(next_date, e)

\* variant: the next chunk starts on the day the previous one ended
NextStartSameDay(next_date) == next_date

\* current = next_date + timedelta(days=1)
NextStart(next_date) == next_date + 1

GenInit ==
    /\ start_date \in FirstDay .. (FirstDay + SpanDays)
    /\ end_date \in start_date .. (FirstDay + SpanDays)
    /\ interval_type \in Intervals
    /\ current = start_date
    /\ chunks = << >>
    /\ gpc = "loop"

\* one iteration of the while loop: compute next_date, yield, advance
YieldBody ==
    /\ gpc = "loop"
    /\ current <= end_date
    /\ LET next_date == NextDate(current, interval_type)
       IN  /\ chunks' = Append(chunks, <<current, ChunkEnd(next_date, end_date)>>)
           /\ current' = NextStart(next_date)
    /\ UNCHANGED <<start_date, end_date, interval_type, gpc>>

\* the while condition fails: the generator is exhausted
ExhaustedBody ==
    /\ gpc = "loop"
    /\ current > end_date
    /\ gpc' = "done"
    /\ UNCHANGED <<start_date, end_date, interval_type, current, chunks>>

\* the generator driven on its own
Yield == YieldBody /\ UNCHANGED nonGen

GenExhausted == ExhaustedBody /\ UNCHANGED nonGen

ClIdle == ctool = "idle" /\ cresults = << >>

NoCall == [chunk |-> 0, page |-> 0, outcome |-> "none", n |-> 0]

RpIdle ==
    /\ EXPORT_CSV = FALSE /\ rpc = "idle" /\ pageIndex = 0 /\ entry_count = 0
    /\ summary = << >> /\ lastCall = NoCall /\ routput = {} /\ report_exit = "running"

GeIdle ==
    /\ pauses = 0 /\ list_pageIndex = 0
    /\ list_requests = << >> /\ list_results = << >>

EnIdle ==
    /\ FLAVOR_SIZE = FALSE /\ FLAVOR_SOURCE_NAME = FALSE /\ remaining = 0
    /\ all_entries = << >> /\ enrich_log = << >> /\ total_flavor_size = 0

NoItem == [level |-> "none", hasMediaType |-> FALSE]

DlIdle ==
    /\ entries = << >> /\ didx = 0 /\ children = << >> /\ ditem = NoItem
    /\ dpc = "idle" /\ attempt = 0 /\ gets = 0 /\ slept = << >>
    /\ details = "unset" /\ url = "unset" /\ dcalls = {}
    /\ derived = << >> /\ filename = << >> /\ folder = {}
    /\ written = << >> /\ overwrote = FALSE

IntervalsInit == GenInit /\ WfIdle /\ ClIdle /\ DlIdle /\ RpIdle /\ GeIdle /\ EnIdle
IntervalsNext == Yield \/ GenExhausted
SpecIntervals == IntervalsInit /\ [][IntervalsNext]_vars

\* C1: the yielded (start, end) pairs begin at S, are contiguous (each start
\* is the day after the previous end), satisfy start <= end <= E, and once the
\* generator is exhausted the last end is E: [S, E] is covered exactly once.
ChunkCoverage ==
    /\ (chunks # << >> => chunks[1][1] = start_date)
    /\ \A i \in 1 .. Len(chunks) :
          /\ chunks[i][1] <= chunks[i][2]
          /\ chunks[i][2] <= end_date
          /\ (i > 1 => chunks[i][1] = chunks[i - 1][2] + 1)
    /\ (gpc = "done" => /\ chunks # << >>
                        /\ chunks[Len(chunks)][2] = end_date)

\* a monthly run over a leap February has finished with three or more chunks
ChunkCoverageWitness ==
    /\ gpc = "done"
    /\ interval_type = 2
    /\ Len(chunks) >= 3
    /\ \E i \in 1 .. Len(chunks) :
          /\ FromOrdinal(chunks[i][2]).month = 2
          /\ FromOrdinal(chunks[i][2]).day = 29
(***************************************************************************)
(* unpublish-republish-entry                                               *)
(***************************************************************************)
MaxEntries == 2
EntryIds == {"1_foo", "1_bar"}
CategoryIds == {"101", "202"}

\* categoryEntry.list responses: totalCount, and objects[0].status.value when
\* there is a match (1 = pending, 2 = active)
ListResponses ==
    { [totalCount |-> 0, status |-> 0],
      [totalCount |-> 1, status |-> 1],
      [totalCount |-> 1, status |-> 2] }

RECURSIVE SeqsUpTo(_, _)
SeqsUpTo(S, n) ==
    IF n = 0 THEN { << >> }
    ELSE LET shorter == SeqsUpTo(S, n - 1)
         IN  shorter \cup { Append(q, x) : q \in { t \in shorter : Len(t) = n - 1 }, x \in S }

\* getattr(resp, "totalCount", 0) > 0
EntryInCategory(resp) == resp.totalCount > 0

\* totalCount > 0 and objects[0].status.value == 2
IsActive(resp) == resp.totalCount > 0 /\ resp.status = 2

Call(step, api, resp, failed) ==
    [i |-> widx, step |-> step, api |-> api, entry |-> entry_ids[widx],
     category |-> category_id, resp |-> resp, failed |-> failed]

NoResp == [totalCount |-> 0, status |-> 0]

WfInit ==
    /\ entry_ids \in SeqsUpTo(EntryIds, MaxEntries)
    /\ category_id \in CategoryIds
    /\ widx = 1
    /\ wpc = "start"
    /\ calls = << >>
    /\ exit_status = "running"

\* "if not entry_ids: ... sys.exit(1)"
NoEntryIds ==
    /\ wpc = "start"
    /\ entry_ids = << >>
    /\ wpc' = "exited"
    /\ exit_status' = 1
    /\ UNCHANGED <<entry_ids, category_id, widx, calls>>
    /\ UNCHANGED nonWf

\* inputs resolved: the for loop starts
StartLoop ==
    /\ wpc = "start"
    /\ entry_ids # << >>
    /\ wpc' = "remove"
    /\ UNCHANGED <<entry_ids, category_id, widx, calls, exit_status>>
    /\ UNCHANGED nonWf

\* "continue", or falling off the end of the loop body
NextEntry == widx + 1

\* an exception nothing catches: traceback, exit status 1
Uncaught(step, api) ==
    /\ calls' = Append(calls, Call(step, api, NoResp, TRUE))
    /\ wpc' = "crashed"
    /\ exit_status' = 1
    /\ UNCHANGED <<entry_ids, category_id, widx>>
    /\ UNCHANGED nonWf

\* variant: an entry that is not active goes straight to the add
AfterStatusSkipVerify(is_active) == IF is_active THEN "delete" ELSE "add"

\* remove_from_category, after the status query: "if not is_active: return True",
\* and the caller's "if not ok" is then false
AfterStatus(is_active) == IF is_active THEN "delete" ELSE "verify_removal"

\* remove_from_category: the status query answers
RemoveStatusQuery ==
    /\ wpc = "remove"
    /\ widx <= Len(entry_ids)
    /\ \E resp \in ListResponses :
          /\ calls' = Append(calls, Call("status", "categoryEntry.list", resp, FALSE))
          /\ wpc' = AfterStatus(IsActive(resp))
    /\ UNCHANGED <<entry_ids, category_id, widx, exit_status>>
    /\ UNCHANGED nonWf

\* remove_from_category: the status query raises (it is outside the try)
RemoveStatusQueryFails ==
    /\ wpc = "remove"
    /\ widx <= Len(entry_ids)
    /\ Uncaught("status", "categoryEntry.list")

\* remove_from_category: categoryEntry.delete returns; ok = True
RemoveDelete ==
    /\ wpc = "delete"
    /\ calls' = Append(calls, Call("delete", "categoryEntry.delete", NoResp, FALSE))
    /\ wpc' = "verify_removal"
    /\ UNCHANGED <<entry_ids, category_id, widx, exit_status>>
    /\ UNCHANGED nonWf

\* remove_from_category: categoryEntry.delete raises; ok = False; continue
RemoveDeleteFails ==
    /\ wpc = "delete"
    /\ calls' = Append(calls, Call("delete", "categoryEntry.delete", NoResp, TRUE))
    /\ wpc' = "remove"
    /\ widx' = NextEntry
    /\ UNCHANGED <<entry_ids, category_id, exit_status>>
    /\ UNCHANGED nonWf

\* variant: the "continue" after a failed removal check is missing
AfterVerifyRemovalNoContinue(removed_check) == [pc |-> "add", idx |-> widx]

\* "if removed_check: ... else: ... continue"
AfterVerifyRemoval(removed_check) ==
    IF removed_check THEN [pc |-> "add", idx |-> widx]
    ELSE [pc |-> "remove", idx |-> NextEntry]

\* removed_check = not entry_in_category(entry_id, category_id)
VerifyRemoval ==
    /\ wpc = "verify_removal"
    /\ \E resp \in ListResponses :
          /\ calls' = Append(calls, Call("verify_removal", "categoryEntry.list", resp, FALSE))
          /\ wpc' = AfterVerifyRemoval(~EntryInCategory(resp)).pc
          /\ widx' = AfterVerifyRemoval(~EntryInCategory(resp)).idx
    /\ UNCHANGED <<entry_ids, category_id, exit_status>>
    /\ UNCHANGED nonWf

\* entry_in_category raises during the removal check
VerifyRemovalFails ==
    /\ wpc = "verify_removal"
    /\ Uncaught("verify_removal", "categoryEntry.list")

\* add_to_category: categoryEntry.add returns
Add ==
    /\ wpc = "add"
    /\ calls' = Append(calls, Call("add", "categoryEntry.add", NoResp, FALSE))
    /\ wpc' = "verify_add"
    /\ UNCHANGED <<entry_ids, category_id, widx, exit_status>>
    /\ UNCHANGED nonWf

\* add_to_category: categoryEntry.add raises; ok = False; continue
AddFails ==
    /\ wpc = "add"
    /\ calls' = Append(calls, Call("add", "categoryEntry.add", NoResp, TRUE))
    /\ wpc' = "remove"
    /\ widx' = NextEntry
    /\ UNCHANGED <<entry_ids, category_id, exit_status>>
    /\ UNCHANGED nonWf

\* added_check = entry_in_category(entry_id, category_id); either way the
\* loop body ends
VerifyAdd ==
    /\ wpc = "verify_add"
    /\ \E resp \in ListResponses :
          calls' = Append(calls, Call("verify_add", "categoryEntry.list", resp, FALSE))
    /\ wpc' = "remove"
    /\ widx' = NextEntry
    /\ UNCHANGED <<entry_ids, category_id, exit_status>>
    /\ UNCHANGED nonWf

\* entry_in_category raises during the addition check
VerifyAddFails ==
    /\ wpc = "verify_add"
    /\ Uncaught("verify_add", "categoryEntry.list")

\* the for loop is exhausted: the script ends, exit status 0
LoopExit ==
    /\ wpc = "remove"
    /\ widx > Len(entry_ids)
    /\ wpc' = "done"
    /\ exit_status' = 0
    /\ UNCHANGED <<entry_ids, category_id, widx, calls>>
    /\ UNCHANGED nonWf

RepublishInit == WfInit /\ GenIdle /\ ClIdle /\ DlIdle /\ RpIdle /\ GeIdle /\ EnIdle
RepublishNext ==
    \/ NoEntryIds \/ StartLoop
    \/ RemoveStatusQuery \/ RemoveStatusQueryFails
    \/ RemoveDelete \/ RemoveDeleteFails
    \/ VerifyRemoval \/ VerifyRemovalFails
    \/ Add \/ AddFails
    \/ VerifyAdd \/ VerifyAddFails
    \/ LoopExit
SpecRepublish == RepublishInit /\ [][RepublishNext]_vars

CallsOf(i) == { j \in 1 .. Len(calls) : calls[j].i = i }

\* C2: when the verification query after the remove step still reports the
\* association, no categoryEntry.add is issued for that entry, and the next
\* thing the loop does is start on the next entry ID (or end, after the last).
NoAddAfterFailedVerification ==
    \A j \in 1 .. Len(calls) :
        (calls[j].step = "verify_removal" /\ ~calls[j].failed /\ EntryInCategory(calls[j].resp))
        => /\ \A k \in CallsOf(calls[j].i) : calls[k].step # "add"
           /\ IF j = Len(calls)
              THEN widx = calls[j].i + 1 /\ wpc \in {"remove", "done"}
              ELSE calls[j + 1].i = calls[j].i + 1 /\ calls[j + 1].step = "status"

\* the verification reported the association as still present for the first
\* entry, and the second entry has been taken up
NoAddAfterFailedVerificationWitness ==
    \E j \in 1 .. Len(calls) :
        /\ calls[j].step = "verify_removal" /\ ~calls[j].failed
        /\ EntryInCategory(calls[j].resp)
        /\ j < Len(calls)
        /\ calls[j + 1].i = calls[j].i + 1

\* C3: a failure of a remote call made for one entry never aborts the run:
\* the process does not end with a non-zero status, and when it ends every
\* entry ID has had its remove step started.
FailuresNeverAbort ==
    (\E j \in 1 .. Len(calls) : calls[j].failed)
    => /\ exit_status # 1
       /\ (exit_status = 0 => \A i \in 1 .. Len(entry_ids) : CallsOf(i) # {})

\* C10: for an entry whose association is present with a non-active status at
\* the status query (and none of whose calls fails), no delete is issued and,
\* once the entry's iteration is over, an add call has been issued for it.
NonActiveProceedsToAdd ==
    \A j \in 1 .. Len(calls) :
        (/\ calls[j].step = "status"
         /\ calls[j].resp.totalCount > 0
         /\ ~IsActive(calls[j].resp)
         /\ \A k \in CallsOf(calls[j].i) : ~calls[k].failed)
        => /\ \A k \in CallsOf(calls[j].i) : calls[k].step # "delete"
           /\ (widx > calls[j].i => \E k \in CallsOf(calls[j].i) : calls[k].step = "add")
(***************************************************************************)
(* Filenames are sequences of one-character strings.                       *)
(***************************************************************************)
Marker == <<"(", "S", "o", "u", "r", "c", "e", ")">>
DotMp4 == <<".", "m", "p", "4">>

\* the characters \s matches, among those the names are built from
Whitespace == {" "}

MarkerAt(s, p) ==
    /\ p + Len(Marker) - 1 <= Len(s)
    /\ SubSeq(s, p, p + Len(Marker) - 1) = Marker

\* start of the leftmost occurrence of (Source), 0 when there is none
FirstMarker(s) ==
    IF \E p \in 1 .. Len(s) : MarkerAt(s, p)
    THEN CHOOSE p \in 1 .. Len(s) : MarkerAt(s, p) /\ \A q \in 1 .. (p - 1) : ~MarkerAt(s, q)
    ELSE 0

RECURSIVE RStrip(_, _)
RStrip(s, class) ==
    IF s # << >> /\ s[Len(s)] \in class THEN RStrip(SubSeq(s, 1, Len(s) - 1), class) ELSE s

RECURSIVE LStrip(_, _)
LStrip(s, class) ==
    IF s # << >> /\ s[1] \in class THEN LStrip(SubSeq(s, 2, Len(s)), class) ELSE s

\* re.sub(r"[pre]*\(Source\)[post]*", "", s): every leftmost, non-overlapping
\* match is deleted, each with the greedy runs before and after the marker
RECURSIVE SubMarker(_, _, _)
SubMarker(s, pre, post) ==
    LET p == FirstMarker(s)
    IN  IF p = 0 THEN s
        ELSE RStrip(SubSeq(s, 1, p - 1), pre)
             \o SubMarker(LStrip(SubSeq(s, p + Len(Marker), Len(s)), post), pre, post)

\* index of the last ".", 0 when there is none
LastDot(p) ==
    IF \E i \in 1 .. Len(p) : p[i] = "."
    THEN CHOOSE i \in 1 .. Len(p) : p[i] = "." /\ \A j \in (i + 1) .. Len(p) : p[j] # "."
    ELSE 0

\* os.path.splitext for a name without directory separators: the extension
\* starts at the last dot, unless only dots precede it
SplitExt(p) ==
    LET d == LastDot(p)
    IN  IF d > 0 /\ \E i \in 1 .. (d - 1) : p[i] # "."
        THEN [base |-> SubSeq(p, 1, d - 1), ext |-> SubSeq(p, d, Len(p))]
        ELSE [base |-> p, ext |-> << >>]

\* get_file_name with REMOVE_SUFFIX: the cleanup of the name's base
CleanDownloadName(fname) ==
    LET base0 == SplitExt(fname).base
        ext == SplitExt(fname).ext
        base1 == SubMarker(base0, Whitespace \cup {"_"}, Whitespace \cup {"_"})
        base2 == RStrip(base1, Whitespace \cup {"_", "-"})
    IN  base2 \o ext

EndsWith(s, t) == Len(s) >= Len(t) /\ SubSeq(s, Len(s) - Len(t) + 1, Len(s)) = t

\* re.sub(r"_*\.mp4$", ".mp4", s)
CollapseBeforeMp4(s) ==
    IF EndsWith(s, DotMp4)
    THEN RStrip(SubSeq(s, 1, Len(s) - Len(DotMp4)), {"_"}) \o DotMp4
    ELSE s

\* clean_filename
clean_filename(fname) ==
    LET cleaned1 == SubMarker(fname, Whitespace, {})
        cleaned2 == CollapseBeforeMp4(cleaned1)
    IN  LStrip(RStrip(cleaned2, Whitespace), Whitespace)

MaxPieces == 3

\* what the candidate names are concatenated from
Pieces ==
    { <<"a">>, <<"_">>, <<" ">>, <<"-">>, <<".">>, DotMp4, Marker,
      <<"(", "S", "o", "u">>, <<"r", "c", "e", ")">> }

RECURSIVE Concat(_)
Concat(ps) == IF ps = << >> THEN << >> ELSE Head(ps) \o Concat(Tail(ps))

Names == { Concat(ps) : ps \in SeqsUpTo(Pieces, MaxPieces) }

CleanInit ==
    /\ ctool \in {"download", "report"}
    /\ \E n \in Names : cresults = <<n>>

\* get_file_name's cleanup applied to the latest result
ApplyDownloadCleanup ==
    /\ ctool = "download"
    /\ Len(cresults) < 3
    /\ cresults' = Append(cresults, CleanDownloadName(cresults[Len(cresults)]))
    /\ UNCHANGED ctool
    /\ UNCHANGED nonCl

\* clean_filename applied to the latest result
ApplyCleanFilename ==
    /\ ctool = "report"
    /\ Len(cresults) < 3
    /\ cresults' = Append(cresults, clean_filename(cresults[Len(cresults)]))
    /\ UNCHANGED ctool
    /\ UNCHANGED nonCl

CleanupInit == CleanInit /\ GenIdle /\ WfIdle /\ DlIdle /\ RpIdle /\ GeIdle /\ EnIdle
CleanupNext == ApplyDownloadCleanup \/ ApplyCleanFilename
SpecCleanup == CleanupInit /\ [][CleanupNext]_vars

\* C9: filename cleanup is idempotent for both tools: cleaning a cleaned name
\* returns it unchanged, clean(clean(n)) = clean(n).
CleanupIdempotent == Len(cresults) = 3 => cresults[3] = cresults[2]

(***************************************************************************)
(* download-entries                                                        *)
(***************************************************************************)
RETRY_ATTEMPTS == 3
MaxTop == 2
MaxChildren == 1

EntryKinds == { [hasMediaType |-> TRUE], [hasMediaType |-> FALSE] }

DigitChars == <<"0", "1", "2", "3", "4", "5", "6", "7", "8", "9">>

\* str(counter)
RECURSIVE ToStr(_)
ToStr(n) ==
    IF n < 10 THEN <<DigitChars[n + 1]>>
    ELSE ToStr(n \div 10) \o <<DigitChars[(n % 10) + 1]>>

\* what the HEAD response or the URL path can name
RawNames ==
    { <<"v", ".", "m">>,
      <<"v", "_">> \o Marker \o <<".", "m">>,
      <<"w">> }

\* what the destination folder can hold before the run
InitialFiles ==
    { <<"v", ".", "m">>, <<"v", "_", "1", ".", "m">>, <<"v", "_", "2", ".", "m">> }

\* variant: the existence test is an "if", made once, instead of a "while"
FreeNameOneSuffix(name, counter, dir) ==
    IF name \in dir
    THEN SplitExt(name).base \o <<"_">> \o ToStr(counter + 1) \o SplitExt(name).ext
    ELSE name

\* get_file_name's collision loop: "while os.path.exists(file_path): ..."
RECURSIVE FreeName(_, _, _)
FreeName(name, counter, dir) ==
    IF name \in dir
    THEN FreeName(SplitExt(name).base \o <<"_">> \o ToStr(counter + 1) \o SplitExt(name).ext,
                  counter + 1, dir)
    ELSE name

\* variant: linear instead of exponential backoff
BackoffLinear(n) == n + 1

\* time.sleep(2 ** attempt)
Backoff(n) == 2 ^ n

\* "if url:" in process_entry
AfterUrl(u) == IF u = "none" THEN "post_item" ELSE "file_name"

ResetItem ==
    /\ attempt' = 0 /\ gets' = 0 /\ slept' = << >>
    /\ details' = "unset" /\ url' = "unset" /\ dcalls' = {}
    /\ derived' = << >> /\ filename' = << >>

DlInit ==
    /\ entries \in SeqsUpTo(EntryKinds, MaxTop)
    /\ folder \in SUBSET InitialFiles
    /\ didx = 0 /\ children = << >> /\ ditem = NoItem
    /\ dpc = "main" /\ attempt = 0 /\ gets = 0 /\ slept = << >>
    /\ details = "unset" /\ url = "unset" /\ dcalls = {}
    /\ derived = << >> /\ filename = << >>
    /\ written = << >> /\ overwrote = FALSE

\* entries = [e for e in entries if hasattr(e, "mediaType")]
WithMediaType(es) == SelectSeq(es, LAMBDA e : e.hasMediaType)

\* main, after get_entries: filter, "No entries found" or start the loop
StartDownloads ==
    /\ dpc = "main"
    /\ entries' = WithMediaType(entries)
    /\ didx' = 1
    /\ dpc' = IF WithMediaType(entries) = << >> THEN "done" ELSE "next_entry"
    /\ UNCHANGED <<children, ditem, attempt, gets, slept, details, url, dcalls,
                   derived, filename, folder, written, overwrote>>
    /\ UNCHANGED gevars
    /\ UNCHANGED nonDl

\* main's for loop takes the next entry: process_entry begins
NextTop ==
    /\ dpc = "next_entry"
    /\ didx <= Len(entries)
    /\ ditem' = [level |-> "top", hasMediaType |-> entries[didx].hasMediaType]
    /\ ResetItem
    /\ dpc' = "resolve"
    /\ UNCHANGED <<entries, didx, children, folder, written, overwrote>>
    /\ UNCHANGED gevars
    /\ UNCHANGED nonDl

\* main's for loop is exhausted: completion banner
AllDone ==
    /\ dpc = "next_entry"
    /\ didx > Len(entries)
    /\ dpc' = "done"
    /\ UNCHANGED <<entries, didx, children, ditem, attempt, gets, slept, details, url,
                   dcalls, derived, filename, folder, written, overwrote>>
    /\ UNCHANGED gevars
    /\ UNCHANGED nonDl

\* variant: the attribute test is missing
HasMediaTypeUntested(item) == TRUE

\* hasattr(entry, "mediaType")
HasMediaType(item) == item.hasMediaType

\* get_download_url: "if not hasattr(entry, 'mediaType'): return None"
Resolve ==
    /\ dpc = "resolve"
    /\ IF HasMediaType(ditem)
       THEN dpc' = "details" /\ url' = url
       ELSE dpc' = AfterUrl("none") /\ url' = "none"
    /\ UNCHANGED <<entries, didx, children, ditem, attempt, gets, slept, details,
                   dcalls, derived, filename, folder, written, overwrote>>
    /\ UNCHANGED gevars
    /\ UNCHANGED nonDl

\* get_entry_details: baseEntry.get returns; get_download_url goes on with it
FetchDetails ==
    /\ dpc = "details"
    /\ attempt < RETRY_ATTEMPTS
    /\ gets' = gets + 1
    /\ \E d \in {"video", "image", "untyped"} :
          /\ details' = d
          /\ \/ d = "untyped" /\ url' = "none" /\ dpc' = AfterUrl("none")
             \/ d = "image" /\ \E u \in {"direct", "none"} : url' = u /\ dpc' = AfterUrl(u)
             \/ d = "video" /\ url' = url /\ dpc' = "flavor_list"
    /\ UNCHANGED <<entries, didx, children, ditem, attempt, slept,
                   dcalls, derived, filename, folder, written, overwrote>>
    /\ UNCHANGED gevars
    /\ UNCHANGED nonDl

\* get_entry_details: baseEntry.get raises KalturaException; sleep; next attempt
FetchDetailsFails ==
    /\ dpc = "details"
    /\ attempt < RETRY_ATTEMPTS
    /\ gets' = gets + 1
    /\ slept' = Append(slept, Backoff(attempt))
    /\ attempt' = attempt + 1
    /\ UNCHANGED <<entries, didx, children, ditem, dpc, details, url,
                   dcalls, derived, filename, folder, written, overwrote>>
    /\ UNCHANGED gevars
    /\ UNCHANGED nonDl

\* get_entry_details: the for loop is exhausted; return None; get_download_url
\* returns None
GiveUp ==
    /\ dpc = "details"
    /\ attempt >= RETRY_ATTEMPTS
    /\ details' = "none"
    /\ url' = "none"
    /\ dpc' = AfterUrl("none")
    /\ UNCHANGED <<entries, didx, children, ditem, attempt, gets, slept,
                   dcalls, derived, filename, folder, written, overwrote>>
    /\ UNCHANGED gevars
    /\ UNCHANGED nonDl

\* get_flavor_download_url: flavorAsset.list raises, or no flavor is original,
\* or an original flavor is found
FlavorList ==
    /\ dpc = "flavor_list"
    /\ dcalls' = dcalls \cup {"flavorAsset.list"}
    /\ \/ url' = "none" /\ dpc' = AfterUrl("none")
       \/ url' = url /\ dpc' = "flavor_url"
    /\ UNCHANGED <<entries, didx, children, ditem, attempt, gets, slept, details,
                   derived, filename, folder, written, overwrote>>
    /\ UNCHANGED gevars
    /\ UNCHANGED nonDl

\* get_flavor_download_url: flavorAsset.getUrl returns a URL, or raises
FlavorUrl ==
    /\ dpc = "flavor_url"
    /\ dcalls' = dcalls \cup {"flavorAsset.getUrl"}
    /\ \E u \in {"flavor", "none"} : url' = u /\ dpc' = AfterUrl(u)
    /\ UNCHANGED <<entries, didx, children, ditem, attempt, gets, slept, details,
                   derived, filename, folder, written, overwrote>>
    /\ UNCHANGED gevars
    /\ UNCHANGED nonDl

\* get_file_name: the name from the headers or the URL, cleaned, made free
GetFileName ==
    /\ dpc = "file_name"
    /\ dcalls' = dcalls \cup {"requests.head"}
    /\ \E raw \in RawNames :
          /\ derived' = CleanDownloadName(raw)
          /\ filename' = FreeName(CleanDownloadName(raw), 0, folder)
    /\ dpc' = "download"
    /\ UNCHANGED <<entries, didx, children, ditem, attempt, gets, slept, details, url,
                   folder, written, overwrote>>
    /\ UNCHANGED gevars
    /\ UNCHANGED nonDl

\* download_file: the file is opened for writing and written
DownloadFile ==
    /\ dpc = "download"
    /\ dcalls' = dcalls \cup {"requests.get"}
    /\ folder' = folder \cup {filename}
    /\ written' = Append(written, filename)
    /\ overwrote' = (overwrote \/ filename \in folder)
    /\ dpc' = "post_item"
    /\ UNCHANGED <<entries, didx, children, ditem, attempt, gets, slept, details, url,
                   derived, filename>>
    /\ UNCHANGED gevars
    /\ UNCHANGED nonDl

\* download_file: requests.get or raise_for_status raises; nothing is written
DownloadFails ==
    /\ dpc = "download"
    /\ dcalls' = dcalls \cup {"requests.get"}
    /\ dpc' = "post_item"
    /\ UNCHANGED <<entries, didx, children, ditem, attempt, gets, slept, details, url,
                   derived, filename, folder, written, overwrote>>
    /\ UNCHANGED gevars
    /\ UNCHANGED nonDl

\* process_entry: get_child_entries (a failed listing gives no children)
GetChildEntries ==
    /\ dpc = "post_item"
    /\ ditem.level = "top"
    /\ children' \in SeqsUpTo(EntryKinds, MaxChildren)
    /\ dpc' = "next_child"
    /\ UNCHANGED <<entries, didx, ditem, attempt, gets, slept, details, url,
                   dcalls, derived, filename, folder, written, overwrote>>
    /\ UNCHANGED gevars
    /\ UNCHANGED nonDl

\* process_entry: a child is done, back to the for loop over children
ChildDone ==
    /\ dpc = "post_item"
    /\ ditem.level = "child"
    /\ dpc' = "next_child"
    /\ UNCHANGED <<entries, didx, children, ditem, attempt, gets, slept, details, url,
                   dcalls, derived, filename, folder, written, overwrote>>
    /\ UNCHANGED gevars
    /\ UNCHANGED nonDl

\* process_entry: the for loop takes the next child
NextChild ==
    /\ dpc = "next_child"
    /\ children # << >>
    /\ ditem' = [level |-> "child", hasMediaType |-> Head(children).hasMediaType]
    /\ children' = Tail(children)
    /\ ResetItem
    /\ dpc' = "resolve"
    /\ UNCHANGED <<entries, didx, folder, written, overwrote>>
    /\ UNCHANGED gevars
    /\ UNCHANGED nonDl

\* process_entry returns: main's loop advances
EndEntry ==
    /\ dpc = "next_child"
    /\ children = << >>
    /\ didx' = didx + 1
    /\ dpc' = "next_entry"
    /\ UNCHANGED <<entries, children, ditem, attempt, gets, slept, details, url,
                   dcalls, derived, filename, folder, written, overwrote>>
    /\ UNCHANGED gevars
    /\ UNCHANGED nonDl

DownloadInit == DlInit /\ GenIdle /\ WfIdle /\ ClIdle /\ RpIdle /\ GeIdle /\ EnIdle
DownloadNext ==
    \/ StartDownloads \/ NextTop \/ AllDone
    \/ Resolve \/ FetchDetails \/ FetchDetailsFails \/ GiveUp
    \/ FlavorList \/ FlavorUrl
    \/ GetFileName \/ DownloadFile \/ DownloadFails
    \/ GetChildEntries \/ ChildDone \/ NextChild \/ EndEntry
SpecDownload == DownloadInit /\ [][DownloadNext]_vars
Range(q) == { q[i] : i \in 1 .. Len(q) }

\* base_k.ext for the name base.ext
Suffixed(name, k) == SplitExt(name).base \o <<"_">> \o ToStr(k) \o SplitExt(name).ext

\* the smallest k >= 1 for which base_k.ext is not in dir
SmallestFree(name, dir) ==
    CHOOSE k \in 1 .. (Cardinality(dir) + 1) :
        /\ Suffixed(name, k) \notin dir
        /\ \A j \in 1 .. (k - 1) : Suffixed(name, j) \in dir

\* C4: when the derived name base.ext exists in the folder, get_file_name
\* returns base_k.ext for the smallest k >= 1 such that base_k.ext does not
\* exist (video_2.mp4 when video.mp4 and video_1.mp4 exist).
SmallestUnusedSuffix ==
    (dpc = "download" /\ derived \in folder)
    => filename = Suffixed(derived, SmallestFree(derived, folder))

\* C5: the name get_file_name returns does not exist in the folder when
\* download_file opens it, so no download overwrites a file that was there
\* before the run or was written earlier in it.
NoOverwrite ==
    /\ (dpc = "download" => filename \notin folder)
    /\ ~overwrote
    /\ \A i, j \in 1 .. Len(written) : i # j => written[i] # written[j]

\* a download is about to write although its derived name collides with a
\* file written earlier in the same run
NoOverwriteWitness ==
    /\ dpc = "download"
    /\ derived \in Range(written)
    /\ filename # derived
    /\ filename \notin folder

\* C8 as amended: at most RETRY_ATTEMPTS baseEntry.get calls per resolution,
\* none after the first success; every failed attempt i, the last one
\* included, is followed by a sleep of 2^i seconds (1, 2, 4); after the third
\* failure the entry is abandoned: no URL, no flavor lookup, no download.
RetryWithBackoff ==
    /\ gets <= RETRY_ATTEMPTS
    /\ gets = Len(slept) + (IF details \in {"video", "image", "untyped"} THEN 1 ELSE 0)
    /\ Len(slept) = attempt
    /\ \A i \in 1 .. Len(slept) : slept[i] = 2 ^ (i - 1)
    /\ (details = "none" <=> (dpc # "details" /\ Len(slept) = RETRY_ATTEMPTS))
    /\ (details = "none" => url = "none" /\ dcalls = {} /\ filename = << >>)

\* an entry has been abandoned after three failed attempts and the run has
\* moved past it
RetryWithBackoffWitness ==
    /\ details = "none"
    /\ gets = 3
    /\ slept = <<1, 2, 4>>
    /\ dpc = "next_child"

\* C8 as stated: as above, but a sleep happens only between an attempt and
\* the next one, so there is one sleep fewer than attempts.
SleepOnlyBetweenAttempts ==
    /\ gets <= RETRY_ATTEMPTS
    /\ \A i \in 1 .. Len(slept) : slept[i] = 2 ^ (i - 1)
    /\ (dpc # "details" /\ gets > 0 => Len(slept) = gets - 1)
    /\ (details = "none" => url = "none" /\ dcalls = {} /\ filename = << >>)
(***************************************************************************)
(* report-count-duration: main execution and fetch_entries_for_interval    *)
(***************************************************************************)
PageSize == 500
MatchLimit == 10000
ReportStart == 396      \* 2024-01-31
MaxReportDays == 1

\* how many entries a non-empty page can hold: a full page or half of one
PageSizes == {PageSize \div 2, PageSize}

\* the interval modes the report runs are started with: monthly (the
\* default) and weekly
ReportIntervals == {2, 3}

\* KalturaException codes
ErrorCodes == {"QUERY_EXCEEDED_MAX_MATCHES_ALLOWED", "SERVICE_FORBIDDEN"}

RpInit ==
    /\ start_date = ReportStart
    /\ end_date \in start_date .. (start_date + MaxReportDays)
    /\ interval_type \in ReportIntervals
    /\ current = start_date
    /\ chunks = << >>
    /\ gpc = "loop"
    /\ EXPORT_CSV \in BOOLEAN
    /\ rpc = "next_chunk"
    /\ pageIndex = 0
    /\ entry_count = 0
    /\ summary = << >>
    /\ lastCall = NoCall
    /\ routput = {}
    /\ report_exit = "running"

\* the for loop takes the next (interval_start, interval_end) and calls
\* fetch_entries_for_interval: entry_count = 0, pager.pageIndex = 1
BeginChunk ==
    /\ rpc = "next_chunk"
    /\ YieldBody
    /\ entry_count' = 0
    /\ pageIndex' = 1
    /\ rpc' = "list"
    /\ UNCHANGED <<EXPORT_CSV, summary, lastCall, routput, report_exit>>
    /\ UNCHANGED nonRp

\* the generator is exhausted: the for loop ends
EndChunks ==
    /\ rpc = "next_chunk"
    /\ ExhaustedBody
    /\ rpc' = "output"
    /\ UNCHANGED <<EXPORT_CSV, pageIndex, entry_count, summary, lastCall, routput, report_exit>>
    /\ UNCHANGED nonRp

ThisCall(outcome, n) ==
    [chunk |-> Len(chunks), page |-> pageIndex, outcome |-> outcome, n |-> n]

\* variant: the limit test is strict
ReachedLimitStrict(count) == count > MatchLimit

\* "if entry_count >= 10000:"
ReachedLimit(count) == count >= MatchLimit

\* client.media.list returns a non-empty page: its entries are processed,
\* the page index advances, then the count is tested against the limit
ListPage ==
    /\ rpc = "list"
    /\ \E n \in PageSizes :
          /\ lastCall' = ThisCall("page", n)
          /\ entry_count' = entry_count + n
          /\ pageIndex' = pageIndex + 1
          /\ IF ReachedLimit(entry_count + n)
             THEN /\ routput' = routput \cup {"truncation_warning"}
                  /\ rpc' = "exit1"
                  /\ report_exit' = 1
             ELSE UNCHANGED <<routput, rpc, report_exit>>
    /\ UNCHANGED <<EXPORT_CSV, summary>>
    /\ UNCHANGED genvars
    /\ UNCHANGED nonRp

\* client.media.list returns no objects: break, return; the main loop
\* appends the summary row
ListEmpty ==
    /\ rpc = "list"
    /\ lastCall' = ThisCall("empty", 0)
    /\ summary' = Append(summary, [range |-> chunks[Len(chunks)], entry_count |-> entry_count])
    /\ rpc' = "next_chunk"
    /\ UNCHANGED <<EXPORT_CSV, pageIndex, entry_count, routput, report_exit>>
    /\ UNCHANGED genvars
    /\ UNCHANGED nonRp

\* variant: any other code is logged and the chunk is skipped
OnListErrorSkip(code) ==
    IF code = "QUERY_EXCEEDED_MAX_MATCHES_ALLOWED" THEN "exit1" ELSE "next_chunk"

\* variant: the max-matches error leads back to the listing call
OnListErrorRetry(code) ==
    IF code = "QUERY_EXCEEDED_MAX_MATCHES_ALLOWED" THEN "list" ELSE "crashed"

\* the except clause: exit(1) for the max-matches code, re-raise otherwise
OnListError(code) ==
    IF code = "QUERY_EXCEEDED_MAX_MATCHES_ALLOWED" THEN "exit1" ELSE "crashed"

\* client.media.list raises KalturaException
ListFails ==
    /\ rpc = "list"
    /\ \E code \in ErrorCodes :
          /\ lastCall' = ThisCall(code, 0)
          /\ rpc' = OnListError(code)
          /\ routput' = IF code = "QUERY_EXCEEDED_MAX_MATCHES_ALLOWED"
                        THEN routput \cup {"guidance"} ELSE routput
          /\ report_exit' = IF OnListError(code) \in {"exit1", "crashed"} THEN 1 ELSE report_exit
    /\ UNCHANGED <<EXPORT_CSV, pageIndex, entry_count, summary>>
    /\ UNCHANGED genvars
    /\ UNCHANGED nonRp

\* the summary, the totals table and, if enabled, the two CSV files
PrintReport ==
    /\ rpc = "output"
    /\ routput' = routput \cup {"summary", "totals"} \cup (IF EXPORT_CSV THEN {"csv"} ELSE {})
    /\ rpc' = "done"
    /\ report_exit' = 0
    /\ UNCHANGED <<EXPORT_CSV, pageIndex, entry_count, summary, lastCall>>
    /\ UNCHANGED genvars
    /\ UNCHANGED nonRp

ReportInit == RpInit /\ WfIdle /\ ClIdle /\ DlIdle /\ GeIdle /\ EnIdle
ReportNext ==
    \/ BeginChunk \/ EndChunks
    \/ ListPage \/ ListEmpty \/ ListFails
    \/ PrintReport
SpecReport == ReportInit /\ [][ReportNext]_vars

\* once the process has exited with status 1 it takes no further step
NothingAfterExit == [][rpc # "exit1"]_vars

\* C6: when a chunk's accumulated entry count reaches 10,000 or more (exactly
\* 10,000 included) the process exits with status 1 at once: no further page
\* or chunk is requested and no totals table or CSV file is produced.
TruncationExits ==
    /\ [](entry_count >= MatchLimit
          => /\ rpc = "exit1"
             /\ report_exit = 1
             /\ "truncation_warning" \in routput
             /\ routput \cap {"summary", "totals", "csv"} = {}
             /\ lastCall = [chunk |-> Len(chunks), page |-> pageIndex - 1,
                            outcome |-> "page", n |-> lastCall.n])
    /\ NothingAfterExit

\* the count has hit exactly 10,000 in the second chunk and the run has exited
TruncationExitsWitness ==
    /\ entry_count = MatchLimit
    /\ rpc = "exit1"
    /\ Len(chunks) = 2
    /\ Len(summary) = 1

\* C7: when a chunk's media listing fails with QUERY_EXCEEDED_MAX_MATCHES_ALLOWED
\* the process prints the guidance and exits with status 1; the call is not
\* repeated and no later page or chunk is queried.
MaxMatchesErrorExits ==
    /\ [](lastCall.outcome = "QUERY_EXCEEDED_MAX_MATCHES_ALLOWED"
          => /\ rpc = "exit1"
             /\ report_exit = 1
             /\ "guidance" \in routput
             /\ routput \cap {"summary", "totals", "csv"} = {}
             /\ lastCall.chunk = Len(chunks)
             /\ lastCall.page = pageIndex)
    /\ NothingAfterExit

\* the listing of a later page of the first of two chunks was refused
MaxMatchesErrorExitsWitness ==
    /\ lastCall.outcome = "QUERY_EXCEEDED_MAX_MATCHES_ALLOWED"
    /\ lastCall.page > 1
    /\ rpc = "exit1"
    /\ end_date > start_date
    /\ interval_type = 2
    /\ Len(chunks) = 1

FlavorCalls == {"flavorAsset.list", "flavorAsset.getUrl"}

\* C11: every entry main's loop processes has a media-type attribute; an
\* item (top-level or child) lacking it is never re-fetched, never resolved to
\* a URL, never named and never downloaded; an item whose re-fetched media
\* type is 2 (image) gets entry_details.downloadUrl as its result and no
\* flavorAsset.list or flavorAsset.getUrl call is issued for it.
MediaTypeFiltering ==
    /\ dpc \notin {"main", "idle"} => \A i \in 1 .. Len(entries) : entries[i].hasMediaType
    /\ (ditem.level # "none" /\ ~ditem.hasMediaType)
       => /\ gets = 0 /\ dcalls = {} /\ filename = << >>
          /\ url \in {"unset", "none"}
          /\ dpc \in {"resolve", "post_item", "next_child", "next_entry", "done"}
    /\ details = "image"
       => /\ dcalls \cap FlavorCalls = {}
          /\ url \in {"direct", "none"}
          /\ dpc \notin {"flavor_list", "flavor_url"}

\* a child without a media type has been skipped, after its parent was
\* downloaded
MediaTypeFilteringWitness ==
    /\ ditem.level = "child" /\ ~ditem.hasMediaType
    /\ dpc = "post_item" /\ url = "none" /\ Len(written) = 1


\* C12: after each top-level entry and its children, one 1-second pause has
\* occurred before the next top-level entry is taken and before the
\* completion banner: when main's loop is about to take entry number didx, or
\* has printed the banner, didx - 1 pauses have been made.
PauseAfterEachEntry ==
    dpc \in {"next_entry", "done"} => pauses = didx - 1


\* ---------------------------------------------------------------------
\* report-count-duration: one call of fetch_entries_for_interval, entry
\* by entry
\* ---------------------------------------------------------------------

MaxChunkEntries == 2
MaxFlavors == 1

\* fa.size of a flavor asset, in KB
FlavorSizes == {4, 2048}

Flavors == [size : FlavorSizes, isOriginal : BOOLEAN]

\* flavor_list.objects
FlavorLists == SeqsUpTo(Flavors, MaxFlavors)

\* sum(fa.size for fa in flavor_list.objects)
RECURSIVE SumSizes(_)
SumSizes(fl) == IF fl = << >> THEN 0 ELSE Head(fl).size + SumSizes(Tail(fl))

\* next((fa for fa in flavor_list.objects if fa.isOriginal), None) is not None
HasSource(fl) == \E k \in 1 .. Len(fl) : fl[k].isOriginal

\* what flavorAsset.getUrl does: it raises, it returns something that is not
\* text, it returns a URL without /fileName/<name>/, or a URL with one
UrlKinds == {"raise", "not_text", "no_match", "match"}

\* the <name> of a URL that has one: "a (Source).mp4", "a_.mp4", "a.mp4"
UrlFileNames ==
    { <<"a", " ">> \o Marker \o DotMp4, <<"a", "_">> \o DotMp4, <<"a">> \o DotMp4 }

\* what the remote calls of one entry's enrichment do: whether
\* flavorAsset.list returns, the flavors it returns, whether every fa.size
\* is a number, and what flavorAsset.getUrl does
EnrichOutcomes ==
    { o \in [listed : BOOLEAN, flavors : FlavorLists, sized : BOOLEAN,
             url : UrlKinds, file : UrlFileNames] :
        /\ ~o.listed => (o.flavors = << >> /\ o.sized)
        /\ ~o.sized => o.flavors # << >>
        /\ (~o.listed \/ ~o.sized \/ ~HasSource(o.flavors)) => o.url = "no_match"
        /\ o.url # "match" => o.file = <<"a">> \o DotMp4 }

\* str(round(flavor_size_sum / 1024, 2)), as a number of hundredths of a MB
\* (round() rounds an exact half to the even digit)
SizeField(kb) ==
    LET q == (kb * 100) \div 1024
        r == (kb * 100) % 1024
    IN  IF r > 512 \/ (r = 512 /\ q % 2 = 1) THEN q + 1 ELSE q

\* the three values at "Default to None in case there's an error"
NoFilename == << >>
Defaults == [original_filename |-> NoFilename, flavor_count |-> 0, flavor_size_sum |-> 0,
             failed |-> "none"]

\* variant: the except clause puts the defaults back
EnrichResetOnFailure(o, source_name) ==
    IF ~o.listed THEN [Defaults EXCEPT !.failed = "flavorAsset.list"]
    ELSE IF ~o.sized THEN [Defaults EXCEPT !.failed = "sum"]
    ELSE IF ~(source_name /\ HasSource(o.flavors))
         THEN [Defaults EXCEPT !.flavor_count = Len(o.flavors),
                               !.flavor_size_sum = SumSizes(o.flavors)]
    ELSE IF o.url = "raise" THEN [Defaults EXCEPT !.failed = "flavorAsset.getUrl"]
    ELSE IF o.url = "not_text" THEN [Defaults EXCEPT !.failed = "re.search"]
    ELSE IF o.url = "no_match"
         THEN [Defaults EXCEPT !.flavor_count = Len(o.flavors),
                               !.flavor_size_sum = SumSizes(o.flavors)]
    ELSE [Defaults EXCEPT !.flavor_count = Len(o.flavors),
                          !.flavor_size_sum = SumSizes(o.flavors),
                          !.original_filename = <<clean_filename(o.file)>>]

\* the try block of "if FLAVOR_SIZE:": the values of original_filename,
\* flavor_count and flavor_size_sum when it is left, and the call whose
\* exception the except clause printed, if any.  flavor_count and
\* flavor_size_sum are assigned as soon as flavorAsset.list has returned,
\* before getUrl and re.search are called.
Enrich(o, source_name) ==
    IF ~o.listed THEN [Defaults EXCEPT !.failed = "flavorAsset.list"]
    ELSE IF ~o.sized
         THEN [Defaults EXCEPT !.flavor_count = Len(o.flavors), !.failed = "sum"]
    ELSE LET listed == [Defaults EXCEPT !.flavor_count = Len(o.flavors),
                                        !.flavor_size_sum = SumSizes(o.flavors)]
         IN  IF ~(source_name /\ HasSource(o.flavors)) THEN listed
             ELSE IF o.url = "raise" THEN [listed EXCEPT !.failed = "flavorAsset.getUrl"]
             ELSE IF o.url = "not_text" THEN [listed EXCEPT !.failed = "re.search"]
             ELSE IF o.url = "no_match" THEN listed
             ELSE [listed EXCEPT !.original_filename = <<clean_filename(o.file)>>]

\* the fields of the row appended to all_entries that the enrichment sets
Row(e) ==
    [original_filename |-> e.original_filename,
     flavor_count |-> e.flavor_count,
     flavor_size_sum |-> SizeField(e.flavor_size_sum)]

EnInit ==
    /\ FLAVOR_SIZE \in BOOLEAN
    /\ FLAVOR_SOURCE_NAME \in BOOLEAN
    /\ remaining = 0
    /\ all_entries = << >>
    /\ enrich_log = << >>
    /\ total_flavor_size = 0
    /\ EXPORT_CSV = FALSE
    /\ rpc = "list"
    /\ pageIndex = 1
    /\ entry_count = 0
    /\ summary = << >>
    /\ lastCall = NoCall
    /\ routput = {}
    /\ report_exit = "running"

\* client.media.list returns a non-empty page
FetchPage ==
    /\ rpc = "list"
    /\ entry_count < MaxChunkEntries
    /\ \E n \in 1 .. (MaxChunkEntries - entry_count) :
          /\ remaining' = n
          /\ lastCall' = [chunk |-> 1, page |-> pageIndex, outcome |-> "page", n |-> n]
    /\ rpc' = "entry"
    /\ UNCHANGED <<EXPORT_CSV, pageIndex, entry_count, summary, routput, report_exit>>
    /\ UNCHANGED <<FLAVOR_SIZE, FLAVOR_SOURCE_NAME, all_entries, enrich_log, total_flavor_size>>
    /\ UNCHANGED <<genvars, wfvars, clvars, dlvars, gevars>>

\* client.media.list returns no objects: break, return
FetchEmpty ==
    /\ rpc = "list"
    /\ lastCall' = [chunk |-> 1, page |-> pageIndex, outcome |-> "empty", n |-> 0]
    /\ rpc' = "returned"
    /\ UNCHANGED <<EXPORT_CSV, pageIndex, entry_count, summary, routput, report_exit>>
    /\ UNCHANGED envars
    /\ UNCHANGED <<genvars, wfvars, clvars, dlvars, gevars>>

\* client.media.list raises KalturaException
FetchFails ==
    /\ rpc = "list"
    /\ \E code \in ErrorCodes :
          /\ lastCall' = [chunk |-> 1, page |-> pageIndex, outcome |-> code, n |-> 0]
          /\ rpc' = OnListError(code)
          /\ routput' = IF code = "QUERY_EXCEEDED_MAX_MATCHES_ALLOWED"
                        THEN routput \cup {"guidance"} ELSE routput
    /\ report_exit' = 1
    /\ UNCHANGED <<EXPORT_CSV, pageIndex, entry_count, summary>>
    /\ UNCHANGED envars
    /\ UNCHANGED <<genvars, wfvars, clvars, dlvars, gevars>>

\* what is remembered of one entry's enrichment: the call whose exception
\* was printed, if any, and how many flavors, of what total size,
\* flavorAsset.list had returned
Logged(o, failed) ==
    [failed |-> failed, returned |-> Len(o.flavors), kb |-> SumSizes(o.flavors)]

NotEnriched == [failed |-> "none", returned |-> 0, kb |-> 0]

\* the end of "for entry in result.objects": the page index advances, then
\* the count is tested against the limit
AfterEntry(count, left) ==
    IF left > 0 THEN "entry"
    ELSE IF ReachedLimit(count) THEN "exit1" ELSE "list"

\* one pass of "for entry in result.objects": the enrichment, the row, the
\* three running totals
ProcessEntry ==
    /\ rpc = "entry"
    /\ remaining > 0
    /\ IF FLAVOR_SIZE
       THEN \E o \in EnrichOutcomes :
               LET e == Enrich(o, FLAVOR_SOURCE_NAME)
               IN  /\ all_entries' = Append(all_entries, Row(e))
                   /\ enrich_log' = Append(enrich_log, Logged(o, e.failed))
                   /\ total_flavor_size' = total_flavor_size + e.flavor_size_sum
       ELSE \E k \in 1 .. (MaxFlavors + 1) :
               \* flavor_count = len(entry.flavorParamsIds.split(','))
               /\ all_entries' = Append(all_entries, Row([Defaults EXCEPT !.flavor_count = k]))
               /\ enrich_log' = Append(enrich_log, NotEnriched)
               /\ total_flavor_size' = total_flavor_size
    /\ entry_count' = entry_count + 1
    /\ remaining' = remaining - 1
    /\ pageIndex' = IF remaining = 1 THEN pageIndex + 1 ELSE pageIndex
    /\ rpc' = AfterEntry(entry_count + 1, remaining - 1)
    /\ routput' = IF AfterEntry(entry_count + 1, remaining - 1) = "exit1"
                  THEN routput \cup {"truncation_warning"} ELSE routput
    /\ report_exit' = IF AfterEntry(entry_count + 1, remaining - 1) = "exit1"
                      THEN 1 ELSE report_exit
    /\ UNCHANGED <<EXPORT_CSV, summary, lastCall, FLAVOR_SIZE, FLAVOR_SOURCE_NAME>>
    /\ UNCHANGED <<genvars, wfvars, clvars, dlvars, gevars>>

EnrichInit == EnInit /\ GenIdle /\ WfIdle /\ ClIdle /\ DlIdle /\ GeIdle
EnrichNext == FetchPage \/ FetchEmpty \/ FetchFails \/ ProcessEntry
SpecEnrich == EnrichInit /\ [][EnrichNext]_vars


\* what the entries logged in lg added to total_flavor_size
RECURSIVE AddedBy(_)
AddedBy(lg) ==
    IF lg = << >> THEN 0
    ELSE (IF Head(lg).failed \in {"flavorAsset.list", "sum"} THEN 0 ELSE Head(lg).kb)
         + AddedBy(Tail(lg))

\* C13 as stated: with FLAVOR_SIZE on, an entry whose enrichment failed at
\* any step (flavor listing, URL resolution, filename extraction) has a row
\* with flavor count 0, flavor size 0 and no original filename, and adds 0
\* to the chunk's flavor-size total.
EnrichmentFailureGivesDefaults ==
    FLAVOR_SIZE =>
        /\ \A k \in 1 .. Len(enrich_log) :
              enrich_log[k].failed # "none" => all_entries[k] = Row(Defaults)
        /\ total_flavor_size =
              AddedBy(SelectSeq(enrich_log, LAMBDA g : g.failed = "none"))

\* C13, amended: with FLAVOR_SIZE on, every entry gets its row whether or not
\* its enrichment failed, and a failure ends no run.  A failed flavor listing
\* leaves count 0, size 0 and no filename and adds 0 to the total.  A failure
\* after the listing (URL resolution, filename extraction) leaves no
\* filename, but the row keeps the number of flavors listed and their size,
\* and that size is added to the total; if summing the sizes is what
\* failed, the count is kept and the size is 0.
EnrichmentFailureKeepsListing ==
    FLAVOR_SIZE =>
        /\ Len(all_entries) = entry_count /\ Len(enrich_log) = entry_count
        /\ rpc \in {"exit1", "crashed"}
              => (lastCall.outcome \in ErrorCodes \/ ReachedLimit(entry_count))
        /\ \A k \in 1 .. Len(enrich_log) :
              LET g == enrich_log[k]
                  row == all_entries[k]
              IN  /\ g.failed = "flavorAsset.list" => row = Row(Defaults)
                  /\ g.failed = "sum" =>
                        row = [Row(Defaults) EXCEPT !.flavor_count = g.returned]
                  /\ g.failed \in {"flavorAsset.getUrl", "re.search"} =>
                        row = [original_filename |-> NoFilename,
                               flavor_count |-> g.returned,
                               flavor_size_sum |-> SizeField(g.kb)]
        /\ total_flavor_size = AddedBy(enrich_log)

\* the URL resolution failed for an entry with a listed flavor, and the next
\* entry has its row
EnrichmentFailureKeepsListingWitness ==
    /\ FLAVOR_SIZE
    /\ Len(enrich_log) = 2
    /\ enrich_log[1].failed = "flavorAsset.getUrl"
    /\ enrich_log[1].kb > 0
    /\ total_flavor_size >= enrich_log[1].kb


\* C14 as stated: no exception of a chunk's media listing propagates uncaught
\* to the top level; each one becomes a logged warning with a skip of the
\* chunk, or an explicit exit with status 1.
ListingErrorsNeverPropagate ==
    /\ rpc # "crashed"
    /\ lastCall.outcome \in ErrorCodes => rpc \in {"exit1", "next_chunk"}

\* C14, amended: a KalturaException of a chunk's media listing always ends
\* the run with status 1, and never becomes a warning with a skip: with the
\* code QUERY_EXCEEDED_MAX_MATCHES_ALLOWED it is caught and answered by the
\* guidance and exit(1); with any other code it is raised again and
\* propagates uncaught to the top level.  Either way the chunk gets no
\* summary row, no later call is made and no report is produced.
ListingErrorsEndTheRun ==
    /\ [](lastCall.outcome \in ErrorCodes
          => /\ rpc = (IF lastCall.outcome = "QUERY_EXCEEDED_MAX_MATCHES_ALLOWED"
                       THEN "exit1" ELSE "crashed")
             /\ report_exit = 1
             /\ ("guidance" \in routput) = (rpc = "exit1")
             /\ routput \cap {"summary", "totals", "csv"} = {}
             /\ Len(summary) = Len(chunks) - 1)
    /\ [][rpc \notin {"exit1", "crashed"}]_vars

\* the listing of the second chunk failed with another code and the
\* exception reached the top level
ListingErrorsEndTheRunWitness ==
    /\ rpc = "crashed"
    /\ lastCall.outcome = "SERVICE_FORBIDDEN"
    /\ Len(chunks) = 2
    /\ Len(summary) = 1


\* ---------------------------------------------------------------------
\* download-entries: get_entries
\* ---------------------------------------------------------------------

MaxListPages == 3
MaxPageEntries == 2

\* pager.pageSize = 100
ListPageSize == 100

\* what a listing can return: a media entry and a playlist
ListedEntries ==
    { [id |-> "1_a", hasMediaType |-> TRUE], [id |-> "0_list", hasMediaType |-> FALSE] }

\* result.objects of a non-empty page
Pages == SeqsUpTo(ListedEntries, MaxPageEntries) \ { << >> }

\* get_entries has been called with one of main's four methods: entries = [],
\* pager.pageIndex = 1
GetEntriesStart ==
    /\ entries = << >> /\ didx = 0 /\ children = << >> /\ ditem = NoItem
    /\ dpc = "get_entries" /\ attempt = 0 /\ gets = 0 /\ slept = << >>
    /\ details = "unset" /\ url = "unset" /\ dcalls = {}
    /\ derived = << >> /\ filename = << >> /\ folder = {}
    /\ written = << >> /\ overwrote = FALSE
    /\ pauses = 0
    /\ list_pageIndex = 1
    /\ list_requests = << >>
    /\ list_results = << >>

\* the call client.baseEntry.list(entry_filter, pager) as the service sees it
ThisRequest == [pageIndex |-> list_pageIndex, pageSize |-> ListPageSize]

\* variant: the page index is not advanced
SamePageIndex(i) == i

\* pager.pageIndex += 1
NextPageIndex(i) == i + 1

\* baseEntry.list returns a non-empty page: extend, advance, loop
ListEntries ==
    /\ dpc = "get_entries"
    /\ Len(list_requests) < MaxListPages
    /\ list_requests' = Append(list_requests, ThisRequest)
    /\ \E page \in Pages :
          /\ list_results' = Append(list_results, [kind |-> "page", objects |-> page])
          /\ entries' = entries \o page
    /\ list_pageIndex' = NextPageIndex(list_pageIndex)
    /\ UNCHANGED <<didx, children, ditem, dpc, attempt, gets, slept, details, url,
                   dcalls, derived, filename, folder, written, overwrote, pauses>>
    /\ UNCHANGED nonDl

\* baseEntry.list returns no objects: break, return entries
ListEntriesEmpty ==
    /\ dpc = "get_entries"
    /\ list_requests' = Append(list_requests, ThisRequest)
    /\ list_results' = Append(list_results, [kind |-> "empty", objects |-> << >>])
    /\ dpc' = "main"
    /\ UNCHANGED <<entries, didx, children, ditem, attempt, gets, slept, details, url,
                   dcalls, derived, filename, folder, written, overwrote, pauses,
                   list_pageIndex>>
    /\ UNCHANGED nonDl

\* baseEntry.list raises KalturaException: print, return entries
ListEntriesFails ==
    /\ dpc = "get_entries"
    /\ list_requests' = Append(list_requests, ThisRequest)
    /\ list_results' = Append(list_results, [kind |-> "error", objects |-> << >>])
    /\ dpc' = "main"
    /\ UNCHANGED <<entries, didx, children, ditem, attempt, gets, slept, details, url,
                   dcalls, derived, filename, folder, written, overwrote, pauses,
                   list_pageIndex>>
    /\ UNCHANGED nonDl

GetEntriesInit == GetEntriesStart /\ GenIdle /\ WfIdle /\ ClIdle /\ RpIdle /\ EnIdle
GetEntriesNext == ListEntries \/ ListEntriesEmpty \/ ListEntriesFails
SpecGetEntries == GetEntriesInit /\ [][GetEntriesNext]_vars

\* the objects of the first n results
ObjectsOf(results, n) == Concat([k \in 1 .. n |-> results[k].objects])

\* C15: get_entries requests page 1, 2, 3, ... with page size 100; what it
\* has accumulated, and what it returns, is the in-order concatenation of the
\* non-empty pages received; the first empty page and the first failed call
\* each end the enumeration, so that nothing is requested after them and a
\* failure on page k returns the entries of pages 1 .. k-1.
PagedEnumeration ==
    LET n == Len(list_requests) IN
    /\ Len(list_results) = n
    /\ \A k \in 1 .. n : list_requests[k] = [pageIndex |-> k, pageSize |-> ListPageSize]
    /\ \A k \in 1 .. (n - 1) : list_results[k].kind = "page"
    /\ dpc = "main" <=> (n > 0 /\ list_results[n].kind \in {"empty", "error"})
    /\ dpc = "main" => entries = ObjectsOf(list_results, n - 1)
    /\ dpc = "get_entries" => entries = ObjectsOf(list_results, n)

\* the call for page 3 failed and the entries of pages 1 and 2 are returned
PagedEnumerationWitness ==
    /\ dpc = "main"
    /\ Len(list_results) = 3
    /\ list_results[3].kind = "error"
    /\ entries = list_results[1].objects \o list_results[2].objects
    /\ list_results[1].objects # list_results[2].objects


\* the calls of step st made in the pass of the loop for list position i
StepsOf(i, st) == { j \in CallsOf(i) : calls[j].step = st }

\* every call carries the resolved category and the entry ID at the list
\* position being processed, the positions are taken in order, one after the
\* other, and an add comes right after a verification query of the same
\* pass that answered with zero matches
CallsInOrder ==
    \A j \in 1 .. Len(calls) :
        /\ calls[j].i \in 1 .. Len(entry_ids)
        /\ calls[j].i <= widx
        /\ calls[j].entry = entry_ids[calls[j].i]
        /\ calls[j].entry \in Range(entry_ids)
        /\ calls[j].category = category_id
        /\ j > 1 => calls[j - 1].i <= calls[j].i
        /\ calls[j].step = "add"
           => /\ j > 1
              /\ calls[j - 1].i = calls[j].i
              /\ calls[j - 1].step = "verify_removal"
              /\ ~calls[j - 1].failed
              /\ calls[j - 1].resp.totalCount = 0

\* the calls of step st made for the entry ID e
StepsFor(e, st) == { j \in 1 .. Len(calls) : calls[j].entry = e /\ calls[j].step = st }

\* C16 as stated: the entry IDs are processed in list order, one after the
\* other; for each entry at most one delete call and at most one add call is
\* issued; an add follows a verification query for that entry that returned
\* zero matches; no call targets another category or an entry not in the list.
OneDeleteOneAddPerEntry ==
    /\ CallsInOrder
    /\ \A e \in EntryIds :
          /\ Cardinality(StepsFor(e, "delete")) <= 1
          /\ Cardinality(StepsFor(e, "add")) <= 1

\* C16, amended: the same, with the two bounds counted for each occurrence
\* of an entry ID in the list (each pass of the loop): a pass issues at most
\* one categoryEntry.delete and at most one categoryEntry.add, the delete
\* first; an ID that occurs twice in the list is processed twice.
OrderedBoundedCalls ==
    /\ CallsInOrder
    /\ \A i \in 1 .. Len(entry_ids) :
          /\ Cardinality(StepsOf(i, "delete")) <= 1
          /\ Cardinality(StepsOf(i, "add")) <= 1
          /\ \A j \in StepsOf(i, "delete"), k \in StepsOf(i, "add") : j < k

\* the list names the same entry twice, and each of the two passes has
\* deleted the association and added it again
OrderedBoundedCallsWitness ==
    /\ Len(entry_ids) = 2
    /\ entry_ids[1] = entry_ids[2]
    /\ wpc = "done"
    /\ \A i \in 1 .. 2 :
          Cardinality(StepsOf(i, "delete")) = 1 /\ Cardinality(StepsOf(i, "add")) = 1

====
